---- MODULE Spec2Model ----
(***************************************************************************)
(* A model of the multi-station audio rig: AudioChannel                    *)
(* (src/core/audio_router.py), Orchestrator (src/core/orchestrator.py)     *)
(* and the input events of src/core/input_monitor.py.                      *)
(*                                                                         *)
(* Channel objects are numbered 1..numChans in creation order; station ids *)
(* map to channel objects through the registry `channels`.  Every caller   *)
(* of the channel API is a thread with a program counter; the playback     *)
(* workers started by play_next are kept per channel in spawn order.       *)
(***************************************************************************)
EXTENDS Integers, Sequences, FiniteSets, TLC

\* ------------------------------------------------------------------ bounds
NumStations == 2
MaxChans == 2
MaxJobs == 3
MaxTracks == 2
DispatchTracks == 1
DispatchChans == 1
NumThreads == 2
MaxBlock == 2
MaxListeners == 2
HidTracks == 1

\* ------------------------------------------------------- program constants
WindowStart == 8
WindowEnd == 20
USAGE_PLAY_PAUSE == 205
USAGE_SCAN_NEXT == 181

\* ------------------------------------------------------------ environment
Stations == 1..NumStations
Chans == 1..MaxChans
Threads == 1..NumThreads
NoChan == 0
NoStation == 0

\* Audio files the user may pick; FileLen is len(data) after sf.read,
\* Readable is whether sf.read succeeds.
Files == {"a.wav", "b.wav", "bad.wav"}
Readable(f) == f # "bad.wav"
FileLen(f) == IF f = "a.wav" THEN 2 ELSE 3

\* Output devices: sd.query_devices(device_id, 'output') succeeds for the
\* valid ones and raises for the others.
Devices == {1, 2, 3}
DeviceValid(d) == d \in {1, 2}
DeviceName(d) == IF d = 1 THEN <<"J", "a", "b", "r", "a">> ELSE <<"U", "S", "B">>

\* HID devices that hid.enumerate() may report, in enumeration order.
HidDevices ==
  << [path |-> "/dev/hid1", product_string |-> <<>>],
     [path |-> "/dev/hid2", product_string |-> <<"u", "s", "b">>],
     [path |-> "/dev/hid3", product_string |-> <<"J", "a", "b">>] >>
HidPaths == {HidDevices[i].path : i \in 1..Len(HidDevices)}
Sources == HidPaths \cup {"GLOBAL"}
Commands == {"NEXT", "PLAY_PAUSE", "PREV"}
Hours == {7, 8, 19, 20}
\* The local hours at which a listener reads a report: one inside the
\* window, one outside.
ListenHours == {8, 20}
\* What device.read(64) may return: a list of bytes, empty when no report
\* is pending.
Reports == {<<>>, <<1, 0>>, <<1, 181>>, <<2, 205, 0>>, <<205, 181>>}

VARIABLES
  channels,        \* Orchestrator.channels: station id -> channel object (0: none)
  chanOrder,       \* the keys of Orchestrator.channels in insertion order
  input_listeners, \* Orchestrator.input_listeners: indices into listeners
  listeners,       \* every HIDListener constructed so far, in construction order
  global_listener, \* the pynput listener of Orchestrator.global_listener
  mappings,        \* Orchestrator.mappings: source id -> station id (0: no key)
  numChans,        \* channel objects constructed so far
  playback_queue,  \* per channel: sequence of <<job_id, path>>
  job_counter,     \* per channel
  queue_lock,      \* per channel: the thread holding the lock (0: free)
  stop_event,      \* per channel
  is_playing,      \* per channel
  is_paused,       \* per channel
  current_frame,   \* per channel
  current_data,    \* per channel: "None" or the file whose samples are stored
  workers,         \* per channel: the playback workers started, in spawn order
  thr,             \* per thread: position in the call it is executing
  addLog,          \* history, per channel: entries appended, in append order
  removed,         \* history, per channel: job ids removed by remove_from_queue
  popped,          \* history, per channel: job ids popped by play_next
  pausedAt,        \* history, per channel: {cursor} at the toggle_pause that paused the
                   \* channel, {} once any other call was made on the channel
  stopped,         \* history, per channel: stop() has returned and play_next was not
                   \* called since
  emptied,         \* history, per channel: the last change of the queue was a removal
                   \* of its only entry, made while the channel was Playing
  lastOp           \* history: the step taken last

orchVars == <<channels, mappings, numChans, chanOrder>>
hidVars == <<input_listeners, listeners, global_listener>>
queueVars == <<playback_queue, job_counter, queue_lock>>
playVars == <<stop_event, is_playing, is_paused, current_frame, current_data>>
histVars == <<addLog, removed, popped>>
vars == <<channels, mappings, numChans, chanOrder, input_listeners, listeners,
          global_listener, playback_queue, job_counter, queue_lock,
          stop_event, is_playing, is_paused, current_frame, current_data,
          workers, thr, addLog, removed, popped, pausedAt, stopped, emptied, lastOp>>

\* ------------------------------------------------------------------ helpers
Op(op, c, x) == [op |-> op, c |-> c, x |-> x]
\* `rest` is what a loop of the call still has to visit.
IdleThr ==
  [pc |-> "idle", c |-> 0, file |-> "", job_id |-> 0, via |-> "", pre |-> "", rest |-> <<>>]
Exists(c) == c \in 1..numChans

\* The playback state of the spec, read off the channel's flags.
PlaybackState(c) ==
  IF ~is_playing[c] THEN "Idle" ELSE IF is_paused[c] THEN "Paused" ELSE "Playing"

Ids(q) == {q[i][1] : i \in 1..Len(q)}
\* A removal that fills the hole with the last entry.
DelAtSwap(q, i) ==
  IF i = Len(q) THEN SubSeq(q, 1, i - 1)
  ELSE SubSeq(q, 1, i - 1) \o <<q[Len(q)]>> \o SubSeq(q, i + 1, Len(q) - 1)
DelAt(q, i) == SubSeq(q, 1, i - 1) \o SubSeq(q, i + 1, Len(q))
FirstIndex(q, j) ==
  CHOOSE i \in 1..Len(q) : q[i][1] = j /\ \A k \in 1..(i - 1) : q[k][1] # j

\* str.lower() on the characters the device names use.
LowerChar(ch) ==
  CASE ch = "J" -> "j" [] ch = "U" -> "u" [] ch = "S" -> "s" [] ch = "B" -> "b"
    [] OTHER -> ch
Lower(s) == [i \in 1..Len(s) |-> LowerChar(s[i])]
\* Python's `needle in hay` for strings.
Contains(hay, needle) ==
  \E k \in 0..(Len(hay) - Len(needle)) : SubSeq(hay, k + 1, k + Len(needle)) = needle

\* -------------------------------------------------------------------- Init
\* The state after Orchestrator.__init__: no channel, no mapping, no HID
\* listener, the global listener started.
Init ==
  /\ channels = [s \in Stations |-> NoChan]
  /\ chanOrder = <<>>
  /\ input_listeners = <<>>
  /\ listeners = <<>>
  /\ global_listener = "running"
  /\ stopped = [c \in Chans |-> FALSE]
  /\ emptied = [c \in Chans |-> FALSE]
  /\ mappings = [src \in Sources |-> NoStation]
  /\ numChans = 0
  /\ playback_queue = [c \in Chans |-> <<>>]
  /\ job_counter = [c \in Chans |-> 0]
  /\ queue_lock = [c \in Chans |-> 0]
  /\ stop_event = [c \in Chans |-> FALSE]
  /\ is_playing = [c \in Chans |-> FALSE]
  /\ is_paused = [c \in Chans |-> FALSE]
  /\ current_frame = [c \in Chans |-> 0]
  /\ current_data = [c \in Chans |-> "None"]
  /\ workers = [c \in Chans |-> <<>>]
  /\ thr = [t \in Threads |-> IdleThr]
  /\ addLog = [c \in Chans |-> <<>>]
  /\ removed = [c \in Chans |-> {}]
  /\ popped = [c \in Chans |-> {}]
  /\ pausedAt = [c \in Chans |-> {}]
  /\ lastOp = Op("init", 0, 0)

\* ------------------------------------------------------------ Orchestrator
\* Orchestrator.map_input
MapInput(src, s) ==
  /\ mappings' = [mappings EXCEPT ![src] = s]

\* Orchestrator._auto_bind_input over the enumeration `devs` (a sequence of
\* HID device records): the first device with a non-empty product string
\* that contains, or is contained in, the audio device name is mapped.
Matches(d, audio_device_name) ==
  /\ d.product_string # <<>>
  /\ \/ Contains(Lower(audio_device_name), Lower(d.product_string))
     \/ Contains(Lower(d.product_string), Lower(audio_device_name))
AutoBindInput(s, audio_device_name, devs) ==
  IF audio_device_name = <<>> \/ ~\E i \in 1..Len(devs) : Matches(devs[i], audio_device_name)
  THEN UNCHANGED mappings
  ELSE LET i == CHOOSE i \in 1..Len(devs) :
                  /\ Matches(devs[i], audio_device_name)
                  /\ \A k \in 1..(i - 1) : ~Matches(devs[k], audio_device_name)
       IN MapInput(devs[i].path, s)

\* list_hid_devices(): the devices present, in enumeration order.
Enumeration(present) == SelectSeq(HidDevices, LAMBDA d : d.path \in present)

\* An add_channel that stores the channel under its station before the
\* device has been validated.
AddChannelRegisterFirst(t, s, d, present) ==
  /\ thr[t].pc = "idle"
  /\ numChans < MaxChans
  /\ numChans' = numChans + 1
  /\ channels' = [channels EXCEPT ![s] = numChans + 1]
  /\ chanOrder' = IF channels[s] = NoChan THEN Append(chanOrder, s) ELSE chanOrder
  /\ IF DeviceValid(d)
     THEN /\ AutoBindInput(s, DeviceName(d), Enumeration(present))
          /\ lastOp' = Op("add_channel", numChans + 1, [station |-> s, ok |-> TRUE])
     ELSE /\ UNCHANGED mappings
          /\ lastOp' = Op("add_channel", NoChan, [station |-> s, ok |-> FALSE])
  /\ UNCHANGED <<queueVars, playVars, workers, thr, histVars, pausedAt,
                 stopped, emptied, hidVars>>

\* Orchestrator.add_channel(channel_id = s, device_index = d).
AddChannel(t, s, d, present) ==
  /\ thr[t].pc = "idle"
  /\ numChans < MaxChans
  /\ IF DeviceValid(d)
     THEN /\ numChans' = numChans + 1
          /\ channels' = [channels EXCEPT ![s] = numChans + 1]
          /\ chanOrder' = IF channels[s] = NoChan THEN Append(chanOrder, s) ELSE chanOrder
          /\ AutoBindInput(s, DeviceName(d), Enumeration(present))
          /\ lastOp' = Op("add_channel", numChans + 1, [station |-> s, ok |-> TRUE])
     ELSE /\ UNCHANGED <<numChans, channels, chanOrder, mappings>>
          /\ lastOp' = Op("add_channel", NoChan, [station |-> s, ok |-> FALSE])
  /\ UNCHANGED <<queueVars, playVars, workers, thr, histVars, pausedAt,
                 stopped, emptied, hidVars>>

\* bind(source_id, station_id) of the control surface.
Bind(t, src, s) ==
  /\ thr[t].pc = "idle"
  /\ MapInput(src, s)
  /\ lastOp' = Op("map_input", NoChan, [src |-> src, station |-> s])
  /\ UNCHANGED <<channels, numChans, chanOrder, queueVars, playVars, workers, thr, histVars,
                 pausedAt,
                 stopped, emptied, hidVars>>

\* ------------------------------------------------- AudioChannel: the queue
\* `with self.queue_lock:` can be entered when no thread holds the lock.
LockIgnored(c) == TRUE
LockFree(c) == queue_lock[c] = 0

\* add_to_queue, line 36: enter the lock.
AddToQueueEnter(t, c, f) ==
  /\ thr[t].pc = "idle"
  /\ Exists(c)
  /\ job_counter[c] < MaxJobs
  /\ LockFree(c)
  /\ queue_lock' = [queue_lock EXCEPT ![c] = t]
  /\ thr' = [thr EXCEPT ![t] = [IdleThr EXCEPT !.pc = "add_inc", !.c = c, !.file = f]]
  /\ lastOp' = Op("add_enter", c, t)
  /\ UNCHANGED <<orchVars, playback_queue, job_counter, playVars, workers, histVars, pausedAt,
                 stopped, emptied, hidVars>>

\* add_to_queue, line 37: self.job_counter += 1
AddToQueueInc(t) ==
  /\ thr[t].pc = "add_inc"
  /\ job_counter' = [job_counter EXCEPT ![thr[t].c] = @ + 1]
  /\ thr' = [thr EXCEPT ![t].pc = "add_read"]
  /\ lastOp' = Op("add_inc", thr[t].c, t)
  /\ UNCHANGED <<orchVars, playback_queue, queue_lock, playVars, workers, histVars, pausedAt,
                 stopped, emptied, hidVars>>

\* add_to_queue, line 38: job_id = self.job_counter
AddToQueueRead(t) ==
  /\ thr[t].pc = "add_read"
  /\ thr' = [thr EXCEPT ![t].pc = "add_append", ![t].job_id = job_counter[thr[t].c]]
  /\ lastOp' = Op("add_read", thr[t].c, t)
  /\ UNCHANGED <<orchVars, queueVars, playVars, workers, histVars, pausedAt,
                 stopped, emptied, hidVars>>

\* add_to_queue, lines 39-41: append (job_id, file_path), leave the lock,
\* return job_id.
AddToQueueAppend(t) ==
  /\ thr[t].pc = "add_append"
  /\ LET c == thr[t].c
         entry == <<thr[t].job_id, thr[t].file>>
     IN /\ playback_queue' = [playback_queue EXCEPT ![c] = Append(@, entry)]
        /\ addLog' = [addLog EXCEPT ![c] = Append(@, entry)]
        /\ queue_lock' = [queue_lock EXCEPT ![c] = 0]
        /\ emptied' = [emptied EXCEPT ![c] = FALSE]
        /\ lastOp' = Op("add_to_queue", c, [t |-> t, ret |-> thr[t].job_id, entry |-> entry])
  /\ thr' = [thr EXCEPT ![t] = IdleThr]
  /\ UNCHANGED <<orchVars, job_counter, playVars, workers, removed, popped, pausedAt,
                 stopped, hidVars>>

\* remove_from_queue(job_id), the whole call under the lock.
RemoveFromQueue(t, c, job_id) ==
  /\ thr[t].pc = "idle"
  /\ Exists(c)
  /\ LockFree(c)
  /\ LET q == playback_queue[c]
         found == job_id \in Ids(q)
     IN /\ playback_queue' =
             [playback_queue EXCEPT ![c] = IF found THEN DelAt(q, FirstIndex(q, job_id)) ELSE q]
        /\ removed' = [removed EXCEPT ![c] = IF found THEN @ \cup {job_id} ELSE @]
        /\ emptied' = [emptied EXCEPT ![c] =
                         IF found THEN Len(q) = 1 /\ PlaybackState(c) = "Playing" ELSE @]
        /\ lastOp' = Op("remove_from_queue", c, [job_id |-> job_id, ret |-> found])
  /\ UNCHANGED <<orchVars, job_counter, queue_lock, playVars, workers, thr, addLog, popped,
                 pausedAt, stopped, hidVars>>

\* ---------------------------------------------- AudioChannel: playback
NewWorker(f) == [pc |-> "start", file |-> f, stream |-> "none"]

\* stop(), lines 75-76: when is_playing, set the stop event and go to sleep;
\* otherwise stop() is over.  `via` is the caller: "stop" for a direct call,
\* "play_next" for the call at line 58, "stop_all" for the call at
\* orchestrator.py line 132, made for the channel at the head of the loop.
StopBegin(t, c, via) ==
  /\ thr[t].pc = (IF via = "stop_all" THEN "td_chan" ELSE "idle")
  /\ Exists(c)
  /\ via = "stop_all" => (thr[t].rest # <<>> /\ c = Head(thr[t].rest))
  /\ IF is_playing[c]
     THEN /\ stop_event' = [stop_event EXCEPT ![c] = TRUE]
          /\ thr' = [thr EXCEPT ![t] = [@ EXCEPT !.pc = "stop_sleep", !.c = c,
                                          !.via = via, !.pre = PlaybackState(c)]]
          /\ stopped' = [stopped EXCEPT ![c] = FALSE]
          /\ lastOp' = Op("stop_set", c, via)
     ELSE /\ UNCHANGED stop_event
          /\ IF via = "stop"
             THEN /\ UNCHANGED thr
                  /\ stopped' = [stopped EXCEPT ![c] = TRUE]
                  /\ lastOp' = Op("stop", c, "Idle")
             ELSE IF via = "stop_all"
             THEN /\ thr' = [thr EXCEPT ![t].rest = Tail(@)]
                  /\ stopped' = [stopped EXCEPT ![c] = TRUE]
                  /\ lastOp' = Op("stop", c, "Idle")
             ELSE /\ thr' = [thr EXCEPT ![t] = [@ EXCEPT !.pc = "pn_pop", !.c = c,
                                                  !.via = via, !.pre = "Idle"]]
                  /\ stopped' = [stopped EXCEPT ![c] = FALSE]
                  /\ lastOp' = Op("stop_skip", c, via)
  /\ pausedAt' = [pausedAt EXCEPT ![c] = {}]
  /\ UNCHANGED <<orchVars, queueVars, is_playing, is_paused, current_frame, current_data,
                 workers, histVars, emptied, hidVars>>

\* stop(), lines 78-79: after time.sleep(0.1), self.is_playing = False.
StopMark(t) ==
  /\ thr[t].pc = "stop_sleep"
  /\ is_playing' = [is_playing EXCEPT ![thr[t].c] = FALSE]
  /\ IF thr[t].via = "stop"
     THEN /\ thr' = [thr EXCEPT ![t] = IdleThr]
          /\ stopped' = [stopped EXCEPT ![thr[t].c] = TRUE]
          /\ lastOp' = Op("stop", thr[t].c, thr[t].pre)
     ELSE IF thr[t].via = "stop_all"
     THEN /\ thr' = [thr EXCEPT ![t] = [@ EXCEPT !.pc = "td_chan", !.rest = Tail(@)]]
          /\ stopped' = [stopped EXCEPT ![thr[t].c] = TRUE]
          /\ lastOp' = Op("stop", thr[t].c, thr[t].pre)
     ELSE /\ thr' = [thr EXCEPT ![t].pc = "pn_pop"]
          /\ UNCHANGED stopped
          /\ lastOp' = Op("stop_mark", thr[t].c, thr[t].via)
  /\ UNCHANGED <<orchVars, queueVars, stop_event, is_paused, current_frame, current_data,
                 workers, histVars, pausedAt, emptied, hidVars>>

\* AudioChannel.stop() called directly.
Stop(t, c) == StopBegin(t, c, "stop")

\* AudioChannel.play_next(), line 58: self.stop().
PlayNext(t, c) == StopBegin(t, c, "play_next")

\* play_next(), lines 60-71: under the lock, return when the queue is empty,
\* otherwise pop the head; then clear the stop event and start the worker.
PlayNextPop(t) ==
  /\ thr[t].pc = "pn_pop"
  /\ LET c == thr[t].c
         q == playback_queue[c]
     IN /\ LockFree(c)
        /\ IF q = <<>>
           THEN /\ UNCHANGED <<playback_queue, stop_event, workers, popped>>
                /\ lastOp' = Op("play_next", c, [pre |-> thr[t].pre, file |-> "None"])
           ELSE /\ playback_queue' = [playback_queue EXCEPT ![c] = Tail(q)]
                /\ popped' = [popped EXCEPT ![c] = @ \cup {Head(q)[1]}]
                /\ stop_event' = [stop_event EXCEPT ![c] = FALSE]
                /\ workers' = [workers EXCEPT ![c] = Append(@, NewWorker(Head(q)[2]))]
                /\ lastOp' = Op("play_next", c, [pre |-> thr[t].pre, file |-> Head(q)[2]])
        /\ emptied' = [emptied EXCEPT ![c] = FALSE]
  /\ thr' = [thr EXCEPT ![t] = IdleThr]
  /\ UNCHANGED <<orchVars, job_counter, queue_lock, is_playing, is_paused, current_frame,
                 current_data, addLog, removed, pausedAt, stopped, hidVars>>

\* _playback_worker, lines 84-85: is_playing = True, is_paused = False.
WorkerMark(c, w) ==
  /\ workers[c][w].pc = "start"
  /\ is_playing' = [is_playing EXCEPT ![c] = TRUE]
  /\ is_paused' = [is_paused EXCEPT ![c] = FALSE]
  /\ workers' = [workers EXCEPT ![c][w].pc = "read"]
  /\ lastOp' = Op("worker_mark", c, w)
  /\ UNCHANGED <<orchVars, queueVars, stop_event, current_frame, current_data, thr, histVars, pausedAt,
                 stopped, emptied, hidVars>>

\* A worker that, when the decode fails, goes on to the next queued entry.
WorkerReadSkips(c, w) ==
  /\ workers[c][w].pc = "read"
  /\ IF Readable(workers[c][w].file)
     THEN /\ current_data' = [current_data EXCEPT ![c] = workers[c][w].file]
          /\ workers' = [workers EXCEPT ![c][w].pc = "open"]
          /\ UNCHANGED <<playback_queue, popped>>
     ELSE /\ UNCHANGED current_data
          /\ IF playback_queue[c] = <<>>
             THEN /\ workers' = [workers EXCEPT ![c][w].pc = "finally"]
                  /\ UNCHANGED <<playback_queue, popped>>
             ELSE /\ workers' = [workers EXCEPT ![c][w].file = Head(playback_queue[c])[2]]
                  /\ playback_queue' = [playback_queue EXCEPT ![c] = Tail(@)]
                  /\ popped' = [popped EXCEPT ![c] = @ \cup {Head(playback_queue[c])[1]}]
  /\ lastOp' = Op("worker_read", c, w)
  /\ UNCHANGED <<orchVars, job_counter, queue_lock, stop_event, is_playing, is_paused,
                 current_frame, thr, addLog, removed, pausedAt, stopped, emptied, hidVars>>

\* _playback_worker, lines 86-88: sf.read, which raises on an unreadable
\* file (control goes to except/finally); then store the samples.
WorkerRead(c, w) ==
  /\ workers[c][w].pc = "read"
  /\ IF Readable(workers[c][w].file)
     THEN /\ current_data' = [current_data EXCEPT ![c] = workers[c][w].file]
          /\ workers' = [workers EXCEPT ![c][w].pc = "open"]
     ELSE /\ UNCHANGED current_data
          /\ workers' = [workers EXCEPT ![c][w].pc = "finally"]
  /\ lastOp' = Op("worker_read", c, w)
  /\ UNCHANGED <<orchVars, queueVars, stop_event, is_playing, is_paused, current_frame,
                 thr, histVars, pausedAt,
                 stopped, emptied, hidVars>>

\* _playback_worker, lines 93-116: current_frame = 0, then sd.OutputStream
\* is entered; opening the device may raise (control goes to except/finally).
WorkerOpen(c, w, ok) ==
  /\ workers[c][w].pc = "open"
  /\ current_frame' = [current_frame EXCEPT ![c] = 0]
  /\ workers' = [workers EXCEPT ![c][w] =
                   IF ok THEN [@ EXCEPT !.pc = "loop", !.stream = "active"]
                         ELSE [@ EXCEPT !.pc = "finally"]]
  /\ lastOp' = Op("worker_open", c, w)
  /\ UNCHANGED <<orchVars, queueVars, stop_event, is_playing, is_paused, current_data,
                 thr, histVars, pausedAt,
                 stopped, emptied, hidVars>>

\* The loop condition of line 118, for the worker's own data.
KeepWaiting(c, w) ==
  ~stop_event[c] /\ current_frame[c] < FileLen(workers[c][w].file)

\* _playback_worker, lines 118-119: one evaluation of the loop condition;
\* when it is false the with-block is left and the stream is closed.
WorkerPoll(c, w) ==
  /\ workers[c][w].pc = "loop"
  /\ IF KeepWaiting(c, w)
     THEN UNCHANGED workers
     ELSE workers' = [workers EXCEPT ![c][w] = [@ EXCEPT !.pc = "finally", !.stream = "closed"]]
  /\ lastOp' = Op("worker_poll", c, w)
  /\ UNCHANGED <<orchVars, queueVars, playVars, thr, histVars, pausedAt,
                 stopped, emptied, hidVars>>

\* A finally block that keeps the reference to the samples.
WorkerFinallyKeepsData(c, w) ==
  /\ workers[c][w].pc = "finally"
  /\ is_playing' = [is_playing EXCEPT ![c] = FALSE]
  /\ workers' = [workers EXCEPT ![c][w].pc = "done"]
  /\ lastOp' = Op("worker_finally", c, w)
  /\ UNCHANGED <<orchVars, queueVars, stop_event, is_paused, current_frame, current_data,
                 thr, histVars, pausedAt, stopped, emptied, hidVars>>

\* _playback_worker, lines 125-127: finally.
WorkerFinally(c, w) ==
  /\ workers[c][w].pc = "finally"
  /\ is_playing' = [is_playing EXCEPT ![c] = FALSE]
  /\ current_data' = [current_data EXCEPT ![c] = "None"]
  /\ workers' = [workers EXCEPT ![c][w].pc = "done"]
  /\ lastOp' = Op("worker_finally", c, w)
  /\ UNCHANGED <<orchVars, queueVars, stop_event, is_paused, current_frame, thr, histVars, pausedAt,
                 stopped, emptied, hidVars>>

\* Line 102: the callback emits silence and leaves the cursor alone.
SilenceWhilePausedNever(c) == FALSE
SilenceWhilePaused(c) == is_paused[c]

\* The audio callback of worker w's stream, lines 95-114, for a block of
\* `frames` frames.  sd.CallbackStop ends the stream: no further callback.
Callback(c, w, frames) ==
  /\ workers[c][w].stream = "active"
  /\ LET len == FileLen(workers[c][w].file)
         chunk_end == current_frame[c] + frames
     IN IF stop_event[c]
        THEN /\ workers' = [workers EXCEPT ![c][w].stream = "finished"]
             /\ UNCHANGED current_frame
             /\ lastOp' = Op("callback", c, "stop")
        ELSE IF SilenceWhilePaused(c)
        THEN /\ UNCHANGED <<workers, current_frame>>
             /\ lastOp' = Op("callback", c, "silence")
        ELSE IF chunk_end > len
        THEN /\ workers' = [workers EXCEPT ![c][w].stream = "finished"]
             /\ UNCHANGED current_frame
             /\ lastOp' = Op("callback", c, "eof")
        ELSE /\ current_frame' = [current_frame EXCEPT ![c] = chunk_end]
             /\ UNCHANGED workers
             /\ lastOp' = Op("callback", c, "frames")
  /\ UNCHANGED <<orchVars, queueVars, stop_event, is_playing, is_paused, current_data,
                 thr, histVars, pausedAt,
                 stopped, emptied, hidVars>>

\* A toggle that skips the is_playing test of line 131.
TogglePauseAlways(c) ==
  /\ is_paused' = [is_paused EXCEPT ![c] = ~@]
  /\ pausedAt' = [pausedAt EXCEPT ![c] = {}]
  /\ UNCHANGED current_frame

\* A toggle that also rewinds the track when it pauses.
TogglePauseRewinds(c) ==
  /\ is_paused' = [is_paused EXCEPT ![c] = IF is_playing[c] THEN ~@ ELSE @]
  /\ pausedAt' = [pausedAt EXCEPT ![c] =
                    IF PlaybackState(c) = "Playing" THEN {current_frame[c]} ELSE {}]
  /\ current_frame' = [current_frame EXCEPT ![c] = IF PlaybackState(c) = "Playing" THEN 0 ELSE @]

\* toggle_pause(), lines 131-132, as a change of the channel's flags.
TogglePauseBody(c) ==
  /\ is_paused' = [is_paused EXCEPT ![c] = IF is_playing[c] THEN ~@ ELSE @]
  /\ pausedAt' = [pausedAt EXCEPT ![c] =
                    IF PlaybackState(c) = "Playing" THEN {current_frame[c]} ELSE {}]
  /\ UNCHANGED current_frame

\* A restart that skips the is_playing test of line 137.
RestartTrackAlways(c) ==
  /\ current_frame' = [current_frame EXCEPT ![c] = 0]
  /\ pausedAt' = [pausedAt EXCEPT ![c] = {}]
  /\ UNCHANGED is_paused

\* restart_track(), lines 137-138.
RestartTrackBody(c) ==
  /\ current_frame' = [current_frame EXCEPT ![c] = IF is_playing[c] THEN 0 ELSE @]
  /\ pausedAt' = [pausedAt EXCEPT ![c] = {}]
  /\ UNCHANGED is_paused

\* AudioChannel.toggle_pause() called from the control surface.
TogglePause(t, c) ==
  /\ thr[t].pc = "idle"
  /\ Exists(c)
  /\ TogglePauseBody(c)
  /\ lastOp' = Op("toggle_pause", c, [pre |-> PlaybackState(c), second |-> pausedAt[c] # {}])
  /\ UNCHANGED <<orchVars, queueVars, stop_event, is_playing, current_data, workers, thr,
                 histVars, stopped, emptied, hidVars>>

\* AudioChannel.restart_track() called directly.
RestartTrack(t, c) ==
  /\ thr[t].pc = "idle"
  /\ Exists(c)
  /\ RestartTrackBody(c)
  /\ lastOp' = Op("restart_track", c, [pre |-> PlaybackState(c), frame |-> current_frame[c]])
  /\ UNCHANGED <<orchVars, queueVars, stop_event, is_playing, current_data, workers, thr,
                 histVars, stopped, emptied, hidVars>>

\* ------------------------------------------------------------- dispatch
InWindowInclusive(hour) == WindowStart <= hour /\ hour <= WindowEnd
InWindow(hour) == WindowStart <= hour /\ hour < WindowEnd

\* A lookup that treats "GLOBAL" like any other key of the map.
TargetChannelAnyKey(src) ==
  IF mappings[src] = NoStation THEN NoChan ELSE channels[mappings[src]]

\* The channel an event resolves to (lines 103-117), NoChan when none.
TargetChannel(src) ==
  IF src = "GLOBAL" THEN NoChan
  ELSE IF mappings[src] = NoStation THEN NoChan
  ELSE channels[mappings[src]]

\* Orchestrator._handle_input(event) at local hour `hour`: what it does to
\* the orchestrator and the channels.
HandleInputBody(src, cmd, hour) ==
  /\ LET c == TargetChannel(src)
         acts == InWindow(hour) /\ c # NoChan
     IN /\ IF acts /\ cmd = "PLAY_PAUSE" THEN TogglePauseBody(c)
           ELSE IF acts /\ cmd = "NEXT" THEN RestartTrackBody(c)
           ELSE UNCHANGED <<is_paused, current_frame, pausedAt>>
  /\ UNCHANGED <<orchVars, queueVars, stop_event, is_playing, current_data, workers, thr,
                 histVars, stopped, emptied, input_listeners, global_listener>>

\* _handle_input called for an event of any source; it runs on the calling
\* listener's thread, start to end.
HandleInput(src, cmd, hour) ==
  /\ HandleInputBody(src, cmd, hour)
  /\ lastOp' = Op("handle_input", TargetChannel(src), [src |-> src, cmd |-> cmd, hour |-> hour])
  /\ UNCHANGED listeners

\* ---------------------------------------------------------- HIDListener
NewListener(path) ==
  [path |-> path, pc |-> "start", stop_event |-> FALSE, device |-> "None", called |-> FALSE]

\* A parser that tests the PLAY_PAUSE usage before the NEXT usage.
ParseReportPauseFirst(data) ==
  IF \E i \in 1..Len(data) : data[i] = USAGE_PLAY_PAUSE THEN "PLAY_PAUSE"
  ELSE IF \E i \in 1..Len(data) : data[i] = USAGE_SCAN_NEXT THEN "NEXT"
  ELSE "None"

\* HIDListener._parse_report: the command a report is taken for.
ParseReport(data) ==
  IF \E i \in 1..Len(data) : data[i] = USAGE_SCAN_NEXT THEN "NEXT"
  ELSE IF \E i \in 1..Len(data) : data[i] = USAGE_PLAY_PAUSE THEN "PLAY_PAUSE"
  ELSE "None"

\* _monitor_loop, lines 40-43: hid.device() makes the handle object,
\* open_path opens it or raises (control goes to except/finally).
ListenerOpen(l, ok) ==
  /\ listeners[l].pc = "start"
  /\ listeners' = [listeners EXCEPT ![l] =
                     IF ok THEN [@ EXCEPT !.pc = "check", !.device = "open"]
                           ELSE [@ EXCEPT !.pc = "finally", !.device = "unopened"]]
  /\ lastOp' = Op("listener_open", NoChan, [l |-> l, ok |-> ok])
  /\ UNCHANGED <<orchVars, input_listeners, global_listener, queueVars, playVars, workers,
                 thr, histVars, pausedAt, stopped, emptied>>

\* _monitor_loop, line 45: the loop condition.
ListenerCheck(l) ==
  /\ listeners[l].pc = "check"
  /\ listeners' = [listeners EXCEPT ![l].pc = IF listeners[l].stop_event THEN "finally"
                                                                         ELSE "read"]
  /\ lastOp' = Op("listener_check", NoChan, [l |-> l])
  /\ UNCHANGED <<orchVars, input_listeners, global_listener, queueVars, playVars, workers,
                 thr, histVars, pausedAt, stopped, emptied>>

\* _monitor_loop, lines 47-50, when device.read raises: control goes to
\* except/finally.
ListenerReadError(l) ==
  /\ listeners[l].pc = "read"
  /\ listeners' = [listeners EXCEPT ![l].pc = "finally"]
  /\ lastOp' = Op("listener_error", NoChan, [l |-> l])
  /\ UNCHANGED <<orchVars, input_listeners, global_listener, queueVars, playVars, workers,
                 thr, histVars, pausedAt, stopped, emptied>>

\* _monitor_loop, lines 47-50, when device.read returns `data` at local hour
\* `hour`: a report that parses to a command is dispatched through the
\* callback, on this thread; then the loop sleeps and tests its condition.
ListenerRead(l, data, hour) ==
  /\ listeners[l].pc = "read"
  /\ IF data # <<>> /\ ParseReport(data) # "None"
     THEN /\ HandleInputBody(listeners[l].path, ParseReport(data), hour)
          /\ listeners' = [listeners EXCEPT ![l] = [@ EXCEPT !.pc = "check", !.called = TRUE]]
          /\ lastOp' = Op("handle_input", TargetChannel(listeners[l].path),
                          [src |-> listeners[l].path, cmd |-> ParseReport(data),
                           hour |-> hour, l |-> l, data |-> data])
     ELSE /\ listeners' = [listeners EXCEPT ![l].pc = "check"]
          /\ lastOp' = Op("listener_read", NoChan, [l |-> l, data |-> data])
          /\ UNCHANGED <<orchVars, input_listeners, global_listener, queueVars, playVars,
                         workers, thr, histVars, pausedAt, stopped, emptied>>

\* A thread end that leaves the handle as it is.
ListenerFinallyLeaks(l) ==
  /\ listeners[l].pc = "finally"
  /\ listeners' = [listeners EXCEPT ![l].pc = "done"]
  /\ lastOp' = Op("listener_finally", NoChan, [l |-> l])
  /\ UNCHANGED <<orchVars, input_listeners, global_listener, queueVars, playVars, workers,
                 thr, histVars, pausedAt, stopped, emptied>>

\* _monitor_loop, lines 54-56: finally; close() on a handle object that was
\* never opened does nothing.
ListenerFinally(l) ==
  /\ listeners[l].pc = "finally"
  /\ listeners' = [listeners EXCEPT ![l] =
                     [@ EXCEPT !.pc = "done",
                               !.device = IF @ = "open" THEN "closed" ELSE @]]
  /\ lastOp' = Op("listener_finally", NoChan, [l |-> l])
  /\ UNCHANGED <<orchVars, input_listeners, global_listener, queueVars, playVars, workers,
                 thr, histVars, pausedAt, stopped, emptied>>

\* HIDListener.stop() on every listener of the list ls: the stop event is set.
StopListeners(ls) ==
  [l \in 1..Len(listeners) |->
     IF \E i \in 1..Len(ls) : ls[i] = l THEN [listeners[l] EXCEPT !.stop_event = TRUE]
     ELSE listeners[l]]

\* ------------------------------------- Orchestrator: rescan and teardown
\* A rescan that also forgets the bindings of the devices no longer present.
RescanBeginForget(t, present) ==
  /\ thr[t].pc = "idle"
  /\ Len(listeners) + Cardinality(present) <= MaxListeners
  /\ listeners' = StopListeners(input_listeners)
  /\ input_listeners' = <<>>
  /\ mappings' = [src \in Sources |-> IF src \in present THEN mappings[src] ELSE NoStation]
  /\ thr' = [thr EXCEPT ![t] =
               IF present = {} THEN IdleThr
               ELSE [IdleThr EXCEPT !.pc = "scan",
                       !.rest = [i \in 1..Len(Enumeration(present)) |->
                                   Enumeration(present)[i].path]]]
  /\ lastOp' = Op("rescan", NoChan, [present |-> present, done |-> present = {}])
  /\ UNCHANGED <<channels, numChans, chanOrder, global_listener, queueVars, playVars,
                 workers, histVars, pausedAt, stopped, emptied>>

\* start_hid_monitoring, lines 76-80: stop every listener of the list, empty
\* the list, enumerate the devices (those in `present`).
RescanBegin(t, present) ==
  /\ thr[t].pc = "idle"
  /\ Len(listeners) + Cardinality(present) <= MaxListeners
  /\ listeners' = StopListeners(input_listeners)
  /\ input_listeners' = <<>>
  /\ thr' = [thr EXCEPT ![t] =
               IF present = {} THEN IdleThr
               ELSE [IdleThr EXCEPT !.pc = "scan",
                       !.rest = [i \in 1..Len(Enumeration(present)) |->
                                   Enumeration(present)[i].path]]]
  /\ lastOp' = Op("rescan", NoChan, [present |-> present, done |-> present = {}])
  /\ UNCHANGED <<orchVars, global_listener, queueVars, playVars, workers, histVars,
                 pausedAt, stopped, emptied>>

\* start_hid_monitoring, lines 85-87, for the next device of the
\* enumeration: construct the listener, start its thread, append it.
RescanStart(t) ==
  /\ thr[t].pc = "scan"
  /\ listeners' = Append(listeners, NewListener(Head(thr[t].rest)))
  /\ input_listeners' = Append(input_listeners, Len(listeners) + 1)
  /\ thr' = [thr EXCEPT ![t] = IF Len(thr[t].rest) = 1 THEN IdleThr
                                ELSE [@ EXCEPT !.rest = Tail(@)]]
  /\ lastOp' = Op("rescan", NoChan, [present |-> {}, done |-> Len(thr[t].rest) = 1])
  /\ UNCHANGED <<orchVars, global_listener, queueVars, playVars, workers, histVars,
                 pausedAt, stopped, emptied>>

\* stop_all, line 131: the channels of the registry, in insertion order.
StopAllBegin(t) ==
  /\ thr[t].pc = "idle"
  /\ thr' = [thr EXCEPT ![t] =
               [IdleThr EXCEPT !.pc = "td_chan", !.via = "stop_all",
                               !.rest = [i \in 1..Len(chanOrder) |-> channels[chanOrder[i]]]]]
  /\ lastOp' = Op("stop_all_begin", NoChan, [again |-> global_listener = "stopped"])
  /\ UNCHANGED <<orchVars, hidVars, queueVars, playVars, workers, histVars, pausedAt,
                 stopped, emptied>>

\* stop_all, line 132: c.stop() for the next channel of the loop.
StopAllChan(t) == \E c \in Chans : StopBegin(t, c, "stop_all")

\* stop_all, lines 133-136: stop every listener of the list and the global
\* listener; the call returns.
StopAllListeners(t) ==
  /\ thr[t].pc = "td_chan"
  /\ thr[t].rest = <<>>
  /\ listeners' = StopListeners(input_listeners)
  /\ global_listener' = "stopped"
  /\ thr' = [thr EXCEPT ![t] = IdleThr]
  /\ lastOp' = Op("stop_all", NoChan, [again |-> global_listener = "stopped"])
  /\ UNCHANGED <<orchVars, input_listeners, queueVars, playVars, workers, histVars,
                 pausedAt, stopped, emptied>>

\* ------------------------------------------------------- specifications
WorkerNext(c) ==
  \E w \in 1..Len(workers[c]) :
     \/ WorkerMark(c, w) \/ WorkerRead(c, w) \/ WorkerPoll(c, w) \/ WorkerFinally(c, w)
     \/ \E ok \in BOOLEAN : WorkerOpen(c, w, ok)
     \/ \E n \in 1..MaxBlock : Callback(c, w, n)

\* The queue of one channel under concurrent callers: every thread enqueues
\* and removes, thread 1 also advances.
QueueNext ==
  \/ numChans = 0 /\ \E d \in Devices : AddChannel(1, 1, d, HidPaths)
  \/ \E t \in Threads, f \in Files : AddToQueueEnter(t, 1, f)
  \/ \E t \in Threads : AddToQueueInc(t) \/ AddToQueueRead(t) \/ AddToQueueAppend(t)
  \/ \E t \in Threads, j \in 1..MaxJobs : RemoveFromQueue(t, 1, j)
  \/ PlayNext(1, 1) \/ PlayNextPop(1)

SpecQueue == Init /\ [][QueueNext]_vars

\* Playback on one channel: the control thread (thread 1) drives the channel
\* API while the workers and the audio callbacks run on their own.
Next ==
  \/ numChans = 0 /\ \E d \in Devices : AddChannel(1, 1, d, HidPaths)
  \/ \E f \in Files : job_counter[1] < MaxTracks /\ AddToQueueEnter(1, 1, f)
  \/ AddToQueueInc(1) \/ AddToQueueRead(1) \/ AddToQueueAppend(1)
  \/ \E j \in 1..MaxTracks : RemoveFromQueue(1, 1, j)
  \/ PlayNext(1, 1) \/ Stop(1, 1) \/ TogglePause(1, 1) \/ RestartTrack(1, 1)
  \/ StopMark(1) \/ PlayNextPop(1)
  \/ WorkerNext(1)

Spec == Init /\ [][Next]_vars

\* Dispatch of input events to the channel of a station.
DispatchNext ==
  \/ \E s \in Stations, d \in Devices : numChans < DispatchChans /\ AddChannel(1, s, d, HidPaths)
  \/ \E src \in {"/dev/hid3", "GLOBAL"}, s \in Stations : Bind(1, src, s)
  \/ \E c \in Chans : job_counter[c] < DispatchTracks /\ AddToQueueEnter(1, c, "a.wav")
  \/ AddToQueueInc(1) \/ AddToQueueRead(1) \/ AddToQueueAppend(1)
  \/ \E c \in Chans : PlayNext(1, c)
  \/ StopMark(1) \/ PlayNextPop(1)
  \/ \E c \in Chans : WorkerNext(c)
  \/ \E src \in Sources, cmd \in Commands, h \in Hours : HandleInput(src, cmd, h)

SpecDispatch == Init /\ [][DispatchNext]_vars

\* A track played to its natural end: one advance from Idle, then only the
\* worker and the audio callback run; no stop, advance, toggle_pause or
\* restart reaches the channel.  The worker thread and the device clock
\* keep running, which is the fairness stated.
NaturalNext ==
  \/ numChans = 0 /\ \E d \in Devices : AddChannel(1, 1, d, HidPaths)
  \/ \E f \in Files : job_counter[1] < MaxTracks /\ AddToQueueEnter(1, 1, f)
  \/ AddToQueueInc(1) \/ AddToQueueRead(1) \/ AddToQueueAppend(1)
  \/ workers[1] = <<>> /\ PlayNext(1, 1)
  \/ PlayNextPop(1)
  \/ WorkerNext(1)

WorkerStep(c, w) ==
  /\ w \in 1..Len(workers[c])
  /\ \/ WorkerMark(c, w) \/ WorkerRead(c, w) \/ WorkerPoll(c, w) \/ WorkerFinally(c, w)
     \/ \E ok \in BOOLEAN : WorkerOpen(c, w, ok)

CallbackStep(c, w) ==
  /\ w \in 1..Len(workers[c])
  /\ \E n \in 1..MaxBlock : Callback(c, w, n)

SpecNatural ==
  /\ Init /\ [][NaturalNext]_vars
  /\ WF_vars(PlayNextPop(1))
  /\ WF_vars(WorkerStep(1, 1))
  /\ WF_vars(CallbackStep(1, 1))

\* The writers of the cursor: on one channel the control thread enqueues,
\* advances, pauses and restarts, bound input sources send events inside and
\* outside the window, and the workers and their callbacks run.
CursorNext ==
  \/ numChans = 0 /\ AddChannel(1, 1, 1, HidPaths)
  \/ job_counter[1] < MaxTracks /\ AddToQueueEnter(1, 1, "b.wav")
  \/ AddToQueueInc(1) \/ AddToQueueRead(1) \/ AddToQueueAppend(1)
  \/ PlayNext(1, 1) \/ StopMark(1) \/ PlayNextPop(1)
  \/ TogglePause(1, 1) \/ RestartTrack(1, 1)
  \/ \E cmd \in {"NEXT", "PLAY_PAUSE"}, h \in ListenHours : HandleInput("/dev/hid3", cmd, h)
  \/ WorkerNext(1)

SpecCursor == Init /\ [][CursorNext]_vars

\* A station whose output device is selected again: every selection creates
\* a channel under the same station id; the control thread enqueues and
\* advances on the registered channel and tears down, and the workers of
\* every channel object run.
ReplaceNext ==
  \/ \E d \in Devices : AddChannel(1, 1, d, HidPaths)
  \/ /\ channels[1] # NoChan
     /\ job_counter[channels[1]] < HidTracks
     /\ \E f \in Files : AddToQueueEnter(1, channels[1], f)
  \/ AddToQueueInc(1) \/ AddToQueueRead(1) \/ AddToQueueAppend(1)
  \/ channels[1] # NoChan /\ PlayNext(1, channels[1])
  \/ StopMark(1) \/ PlayNextPop(1)
  \/ StopAllBegin(1) \/ StopAllChan(1) \/ StopAllListeners(1)
  \/ \E c \in Chans : WorkerNext(c)

SpecReplace == Init /\ [][ReplaceNext]_vars

\* The registry and the Binding Map: channels are created, also on a
\* station that has one, with valid and invalid devices and any set of HID
\* devices plugged in; sources are bound by hand.
RegistryNext ==
  \/ \E s \in Stations, d \in Devices, present \in SUBSET HidPaths :
        AddChannel(1, s, d, present)
  \/ \E src \in Sources, s \in Stations : Bind(1, src, s)

SpecRegistry == Init /\ [][RegistryNext]_vars

\* Removal and advance on one channel with up to MaxJobs entries of one
\* file: the control thread enqueues, removes by id and advances while the
\* workers run.
RemoveNext ==
  \/ numChans = 0 /\ \E d \in Devices : AddChannel(1, 1, d, HidPaths)
  \/ AddToQueueEnter(1, 1, "a.wav")
  \/ AddToQueueInc(1) \/ AddToQueueRead(1) \/ AddToQueueAppend(1)
  \/ \E j \in 1..(MaxJobs + 1) : RemoveFromQueue(1, 1, j)
  \/ PlayNext(1, 1) \/ StopMark(1) \/ PlayNextPop(1)
  \/ WorkerNext(1)

SpecRemove == Init /\ [][RemoveNext]_vars

\* The steps of listener l's thread.
ListenerStep(l) ==
  /\ l \in 1..Len(listeners)
  /\ \/ ListenerCheck(l) \/ ListenerReadError(l) \/ ListenerFinally(l)
     \/ \E ok \in BOOLEAN : ListenerOpen(l, ok)
     \/ \E data \in Reports, h \in ListenHours : ListenerRead(l, data, h)

\* The enumerations a rescan may find.
ScanSets == SUBSET {"/dev/hid2", "/dev/hid3"}

\* Rescans of the HID devices: the control thread creates a channel, binds
\* a source and rescans with any enumeration while the listener threads run
\* and dispatch what they read.
RescanNext ==
  \/ numChans = 0 /\ \E d \in Devices : AddChannel(1, 1, d, HidPaths)
  \/ \E s \in Stations : Bind(1, "/dev/hid3", s)
  \/ \E present \in ScanSets : RescanBegin(1, present)
  \/ RescanStart(1)
  \/ \E l \in 1..MaxListeners : ListenerStep(l)

SpecRescan == Init /\ [][RescanNext]_vars

\* stop_all has been called.
TeardownCalled == global_listener = "stopped" \/ thr[1].via = "stop_all"

\* The rig up to and after teardown: the control thread creates a channel,
\* enqueues, advances and rescans; once it has called stop_all it calls
\* nothing but stop_all.  Workers, callbacks and listener threads run on
\* their own, and every thread that can take a step eventually does.
TeardownNext ==
  \/ ~TeardownCalled /\ numChans = 0 /\ \E d \in Devices : AddChannel(1, 1, d, HidPaths)
  \/ ~TeardownCalled /\ \E f \in Files : job_counter[1] < HidTracks /\ AddToQueueEnter(1, 1, f)
  \/ AddToQueueInc(1) \/ AddToQueueRead(1) \/ AddToQueueAppend(1)
  \/ ~TeardownCalled /\ PlayNext(1, 1)
  \/ StopMark(1) \/ PlayNextPop(1)
  \/ ~TeardownCalled /\ RescanBegin(1, {"/dev/hid3"})
  \/ RescanStart(1)
  \/ StopAllBegin(1) \/ StopAllChan(1) \/ StopAllListeners(1)
  \/ WorkerNext(1)
  \/ \E l \in 1..MaxListeners : ListenerStep(l)

SpecTeardown ==
  /\ Init /\ [][TeardownNext]_vars
  /\ WF_vars(StopMark(1)) /\ WF_vars(PlayNextPop(1)) /\ WF_vars(RescanStart(1))
  /\ WF_vars(StopAllChan(1)) /\ WF_vars(StopAllListeners(1))
  /\ \A w \in 1..HidTracks : WF_vars(WorkerStep(1, w)) /\ WF_vars(CallbackStep(1, w))
  /\ \A l \in 1..MaxListeners : WF_vars(ListenerStep(l))

\* ----------------------------------------------------------------- claims
\* The entries of log whose ids are not in gone, in log order.
Remaining(log, gone) == SelectSeq(log, LAMBDA e : e[1] \notin gone)

\* C1: after any sequence of add_to_queue and remove_from_queue calls on a
\* channel with no play_next in between, the queue is exactly the appended
\* entries that were not removed, in the order they were appended.
C1_QueueIsFifoOfRemaining ==
  \A c \in Chans :
    popped[c] = {} => playback_queue[c] = Remaining(addLog[c], removed[c])

\* C1 witness: three entries were enqueued and the middle one was removed.
C1_Witness ==
  /\ Len(addLog[1]) = 3
  /\ removed[1] = {addLog[1][2][1]}
  /\ popped[1] = {}
  /\ playback_queue[1] = <<addLog[1][1], addLog[1][3]>>
  /\ lastOp.op = "remove_from_queue"

\* C2: on one channel the job ids of the appended entries are strictly
\* increasing in append order (so none is handed out twice), whatever the
\* interleaving of the callers, and the id an add_to_queue call returns is
\* the id stored with the entry it appended at the tail.
C2_JobIdsStrictlyIncreasing ==
  /\ \A c \in Chans : \A i, j \in 1..Len(addLog[c]) :
        i < j => addLog[c][i][1] < addLog[c][j][1]
  /\ lastOp.op = "add_to_queue" =>
        LET q == playback_queue[lastOp.c]
        IN q # <<>> /\ q[Len(q)] = lastOp.x.entry /\ q[Len(q)][1] = lastOp.x.ret

\* C2 witness: thread 2 returns from add_to_queue with the second id while
\* thread 1 is inside play_next, after a removal and a pop on the channel.
C2_Witness ==
  /\ lastOp.op = "add_to_queue" /\ lastOp.x.t = 2 /\ lastOp.x.ret >= 2
  /\ thr[1].pc = "pn_pop"
  /\ removed[1] # {} /\ popped[1] # {}

\* C3: a play_next that finds the queue empty returns with the queue empty
\* and the channel Idle; one that finds it non-empty removes exactly the head,
\* starts a worker for the head's file, and that worker's first step makes
\* the channel Playing.
C3_AdvanceClaim ==
  [][ \A c \in Chans :
        /\ (lastOp'.op = "play_next" /\ lastOp'.c = c) =>
              LET q == playback_queue[c]
              IN IF q = <<>>
                 THEN playback_queue'[c] = <<>> /\ PlaybackState(c)' = "Idle"
                 ELSE /\ playback_queue'[c] = Tail(q)
                      /\ workers'[c] = Append(workers[c], NewWorker(Head(q)[2]))
        /\ (lastOp'.op = "worker_mark" /\ lastOp'.c = c) => PlaybackState(c)' = "Playing" ]_vars

\* The workers of channel c that are inside the with-block of line 116:
\* the output stream is open.
OpenContexts(c) == {w \in 1..Len(workers[c]) : workers[c][w].pc = "loop"}

\* C4: at every moment at most one playback worker of a channel has an open
\* output stream.
C4_AtMostOneContext ==
  \A c \in Chans : Cardinality(OpenContexts(c)) <= 1

\* Everything a channel holds besides the history variables.
ChannelState(c) ==
  <<playback_queue[c], job_counter[c], stop_event[c], is_playing[c], is_paused[c],
    current_frame[c], current_data[c], workers[c]>>

\* C8 as stated: toggle_pause on an Idle channel changes nothing; on a
\* Playing channel it makes the channel Paused; the next call on the channel,
\* when it is toggle_pause again, makes the channel Playing with the cursor
\* at its value at the first call.
C8_ToggleClaim ==
  [][ \A c \in Chans :
        (lastOp'.op = "toggle_pause" /\ lastOp'.c = c) =>
           /\ PlaybackState(c) = "Idle" => ChannelState(c)' = ChannelState(c)
           /\ PlaybackState(c) = "Playing" => PlaybackState(c)' = "Paused"
           /\ pausedAt[c] # {} =>
                 PlaybackState(c)' = "Playing" /\ {current_frame'[c]} = pausedAt[c] ]_vars

\* C8 amended: toggle_pause on an Idle channel changes nothing; on a Playing
\* channel it makes the channel Paused; the next call, when it is
\* toggle_pause again and finds the channel still Paused, makes it Playing;
\* toggle_pause never writes the cursor and no callback moves it while the
\* channel is paused, so the cursor is then its value at the first call, or
\* zero when a worker's line 93 ran in between.
C8_ToggleAmended ==
  [][ \A c \in Chans :
        (lastOp'.op = "toggle_pause" /\ lastOp'.c = c) =>
           /\ PlaybackState(c) = "Idle" => ChannelState(c)' = ChannelState(c)
           /\ PlaybackState(c) = "Playing" => PlaybackState(c)' = "Paused"
           /\ current_frame'[c] = current_frame[c]
           /\ (pausedAt[c] # {} /\ PlaybackState(c) = "Paused") =>
                 /\ PlaybackState(c)' = "Playing"
                 /\ current_frame'[c] \in pausedAt[c] \cup {0} ]_vars

\* C8 witness: the second toggle_pause has made the channel Playing again
\* in the middle of a track, callbacks having run while it was paused.
C8_Witness ==
  /\ lastOp.op = "toggle_pause" /\ lastOp.x.second /\ lastOp.x.pre = "Paused"
  /\ PlaybackState(1) = "Playing"
  /\ current_frame[1] > 0
  /\ \E w \in 1..Len(workers[1]) : workers[1][w].stream = "active"

\* C10: restart_track on a channel that is playing (paused or not) sets the
\* cursor to zero and leaves is_playing, is_paused, the queue, the job
\* counter, the stop event and the workers as they were; on an Idle channel
\* it changes nothing.
C10_RestartFrame ==
  [][ \A c \in Chans :
        (lastOp'.op = "restart_track" /\ lastOp'.c = c) =>
           /\ is_playing[c] => current_frame'[c] = 0
           /\ ~is_playing[c] => current_frame'[c] = current_frame[c]
           /\ UNCHANGED <<playback_queue, job_counter, queue_lock, stop_event, is_playing,
                          is_paused, current_data, workers>> ]_vars

\* C10 witness: restart_track has reset a non-zero cursor of a Playing
\* channel whose queue is not empty.
C10_Witness ==
  /\ lastOp.op = "restart_track" /\ lastOp.x.pre = "Playing" /\ lastOp.x.frame > 0
  /\ current_frame[1] = 0
  /\ PlaybackState(1) = "Playing"
  /\ playback_queue[1] # <<>>

\* C9: a channel marked playing that receives no stop, advance or
\* toggle_pause is eventually Idle again, whatever the buffer length and the
\* block sizes of the callbacks.
C9_EventuallyIdle ==
  \A c \in Chans : is_playing[c] ~> ~is_playing[c]

\* The step is _handle_input for an event (src, cmd, hour).
IsDispatch(op) == op.op = "handle_input"

\* C5 as stated: an event in the active window from a source bound to a
\* station with a channel, command PLAY_PAUSE or NEXT, advances that channel:
\* with a track queued the head is popped and a worker started for it.
C5_DispatchAdvancesClaim ==
  [][ \A c \in 1..MaxChans :
        ( /\ IsDispatch(lastOp') /\ lastOp'.c = c
          /\ WindowStart <= lastOp'.x.hour /\ lastOp'.x.hour < WindowEnd
          /\ lastOp'.x.cmd \in {"PLAY_PAUSE", "NEXT"}
          /\ playback_queue[c] # <<>> ) =>
             /\ playback_queue'[c] = Tail(playback_queue[c])
             /\ workers'[c] = Append(workers[c], NewWorker(Head(playback_queue[c])[2])) ]_vars

\* C5 amended: such an event performs toggle_pause on the channel for
\* PLAY_PAUSE and restart_track for NEXT (nothing for PREV); it never pops
\* the queue, starts no worker and leaves is_playing and the stop event
\* alone: NEXT on an Idle station with one track queued changes nothing.
C5_DispatchTogglesOrRestarts ==
  [][ \A c \in 1..MaxChans :
        ( /\ IsDispatch(lastOp') /\ lastOp'.c = c
          /\ WindowStart <= lastOp'.x.hour /\ lastOp'.x.hour < WindowEnd ) =>
             /\ is_paused'[c] = IF lastOp'.x.cmd = "PLAY_PAUSE" /\ is_playing[c]
                                THEN ~is_paused[c] ELSE is_paused[c]
             /\ current_frame'[c] = IF lastOp'.x.cmd = "NEXT" /\ is_playing[c]
                                    THEN 0 ELSE current_frame[c]
             /\ UNCHANGED <<playback_queue, job_counter, queue_lock, stop_event, is_playing,
                            current_data, workers>> ]_vars

\* C5 witness: NEXT arrived in the window from a source bound to a station
\* whose channel is Idle with one track queued, and the track is still queued.
C5_Witness ==
  /\ IsDispatch(lastOp) /\ lastOp.c # NoChan
  /\ lastOp.x.cmd = "NEXT" /\ lastOp.x.hour = 8
  /\ mappings[lastOp.x.src] # NoStation /\ channels[mappings[lastOp.x.src]] = lastOp.c
  /\ PlaybackState(lastOp.c) = "Idle"
  /\ Len(playback_queue[lastOp.c]) = 1
  /\ workers[lastOp.c] = <<>>

\* C6: an event dispatched at an hour below 8 or from 20 on changes nothing
\* of any channel, whatever its source, command and binding.
C6_OutsideWindowInert ==
  [][ ( /\ IsDispatch(lastOp')
        /\ (lastOp'.x.hour < WindowStart \/ lastOp'.x.hour >= WindowEnd) ) =>
           \A c \in Chans : ChannelState(c)' = ChannelState(c) ]_vars

\* C6 witness: PLAY_PAUSE arrived at 20:00 from a source bound to a station
\* whose channel is streaming, not paused.
C6_Witness ==
  /\ IsDispatch(lastOp) /\ lastOp.c # NoChan
  /\ lastOp.x.cmd = "PLAY_PAUSE" /\ lastOp.x.hour = WindowEnd
  /\ PlaybackState(lastOp.c) = "Playing"
  /\ \E w \in 1..Len(workers[lastOp.c]) : workers[lastOp.c][w].stream = "active"

\* C7: an event whose source is no key of the mappings, or is "GLOBAL"
\* (bound or not), changes nothing of any channel, at any hour, for any
\* command.
C7_UnmappedOrGlobalInert ==
  [][ ( /\ IsDispatch(lastOp')
        /\ (mappings[lastOp'.x.src] = NoStation \/ lastOp'.x.src = "GLOBAL") ) =>
           \A c \in Chans : ChannelState(c)' = ChannelState(c) ]_vars

\* C7 witness: PLAY_PAUSE arrived in the window from "GLOBAL" while
\* "GLOBAL" is bound to a station whose channel is Playing.
C7_Witness ==
  /\ IsDispatch(lastOp) /\ lastOp.x.src = "GLOBAL"
  /\ lastOp.x.cmd = "PLAY_PAUSE" /\ lastOp.x.hour = 8
  /\ mappings["GLOBAL"] # NoStation
  /\ channels[mappings["GLOBAL"]] # NoChan
  /\ PlaybackState(channels[mappings["GLOBAL"]]) = "Playing"

\* No playback worker and no HID listener loop is running.
Quiet ==
  /\ \A c \in Chans : \A w \in 1..Len(workers[c]) : workers[c][w].pc = "done"
  /\ \A l \in 1..Len(listeners) : listeners[l].pc = "done"

\* C11: once stop_all has returned, eventually no playback worker and no
\* HID listener loop is running, whatever the state at the call.
C11_TeardownQuiesces ==
  (global_listener = "stopped") ~> Quiet

\* C12: from the return of stop() until the next play_next call the channel
\* is Idle, whatever the playback workers do in between.
C12_StopStaysIdle ==
  \A c \in Chans : stopped[c] => PlaybackState(c) = "Idle"

\* C15: remove_from_queue(job_id) returns True exactly when an entry with
\* that id is queued, removes that entry and no other, keeping the order, and
\* leaves is_playing, is_paused and the cursor alone; and when it removed the
\* only queued entry while the channel was Playing, the next play_next
\* returns with the queue empty and the channel Idle.
C15_RemoveByIdClaim ==
  [][ \A c \in Chans :
        /\ (lastOp'.op = "remove_from_queue" /\ lastOp'.c = c) =>
              /\ lastOp'.x.ret = (lastOp'.x.job_id \in Ids(playback_queue[c]))
              /\ playback_queue'[c] =
                    SelectSeq(playback_queue[c], LAMBDA e : e[1] # lastOp'.x.job_id)
              /\ Len(playback_queue'[c]) >= Len(playback_queue[c]) - 1
              /\ UNCHANGED <<is_playing, is_paused, current_frame, current_data, stop_event,
                             workers, job_counter>>
        /\ (lastOp'.op = "play_next" /\ lastOp'.c = c /\ emptied[c]) =>
              playback_queue'[c] = <<>> /\ PlaybackState(c)' = "Idle" ]_vars

FailingWorkerStep(last, c, w, op) ==
  /\ last.op = op /\ last.c = c /\ last.x = w
  /\ w \in 1..Len(workers[c])
  /\ ~Readable(workers[c][w].file)

\* C17: when sf.read fails in a worker, the worker goes to its finally
\* block and ends there (nothing propagates out of the thread), the channel
\* is Idle after the finally block, and neither step pops an entry or starts
\* a worker: the queue stays as the advance that popped the failing track
\* left it.
C17_DecodeFailureContained ==
  [][ \A c \in Chans, w \in 1..MaxJobs :
        /\ FailingWorkerStep(lastOp', c, w, "worker_read") =>
              /\ workers'[c][w].pc = "finally"
              /\ UNCHANGED <<playback_queue, popped, job_counter>>
              /\ Len(workers'[c]) = Len(workers[c])
        /\ FailingWorkerStep(lastOp', c, w, "worker_finally") =>
              /\ workers'[c][w].pc = "done"
              /\ PlaybackState(c)' = "Idle"
              /\ UNCHANGED <<playback_queue, popped, job_counter>>
              /\ Len(workers'[c]) = Len(workers[c]) ]_vars

\* C17 witness: the worker of a corrupt file has ended, the channel is Idle
\* and the entry queued behind the corrupt one is still queued.
C17_Witness ==
  /\ lastOp.op = "worker_finally"
  /\ workers[1][lastOp.x].file = "bad.wav" /\ workers[1][lastOp.x].pc = "done"
  /\ PlaybackState(1) = "Idle"
  /\ Len(playback_queue[1]) = 1
  /\ popped[1] = {1}

\* The listeners of Orchestrator.input_listeners.
Current == {input_listeners[i] : i \in 1..Len(input_listeners)}

\* C13: once a listener started by a rescan runs, or the rescan has
\* returned, no listener discarded by the rescan is still about to read its
\* device: only the listeners of the new enumeration run.
C13_OnlyFreshListenersRun ==
  ( \/ thr[1].pc # "scan"
    \/ \E l \in Current : listeners[l].pc # "start" ) =>
       \A l \in 1..Len(listeners) : l \notin Current => listeners[l].pc # "read"

\* C14: no step of start_hid_monitoring changes the Binding Map, the channel
\* registry or the global listener.
C14_RescanKeepsBindings ==
  [][ lastOp'.op = "rescan" =>
         UNCHANGED <<mappings, channels, chanOrder, numChans, global_listener>> ]_vars

\* C14 witness: a rescan that found no device has returned; the listener of
\* /dev/hid3 was told to stop, and /dev/hid3 is still bound to its station
\* with the global listener running.
C14_Witness ==
  /\ lastOp.op = "rescan" /\ lastOp.x.done /\ lastOp.x.present = {}
  /\ input_listeners = <<>>
  /\ \E l \in 1..Len(listeners) : listeners[l].path = "/dev/hid3" /\ listeners[l].stop_event
  /\ mappings["/dev/hid3"] # NoStation
  /\ channels[mappings["/dev/hid3"]] # NoChan
  /\ global_listener = "running"

\* C18: a listener thread that has ended holds no open handle; and a
\* listener whose open_path failed goes straight to its finally block: it
\* never reads, never opens again and never calls the dispatch callback.
C18_ListenerClosesHandle ==
  \A l \in 1..Len(listeners) :
     /\ listeners[l].pc = "done" => listeners[l].device \in {"closed", "unopened"}
     /\ listeners[l].device = "unopened" =>
           listeners[l].pc \in {"finally", "done"} /\ ~listeners[l].called
     /\ listeners[l].pc \in {"check", "read"} => listeners[l].device = "open"

\* C18 witness: one listener has ended on a failed open, another has ended
\* on a read error after it had dispatched an event, its handle closed.
C18_Witness ==
  /\ lastOp.op = "listener_finally"
  /\ \E l1, l2 \in 1..Len(listeners) :
        /\ listeners[l1].pc = "done" /\ listeners[l1].device = "unopened"
        /\ listeners[l2].pc = "done" /\ listeners[l2].device = "closed"
        /\ listeners[l2].called /\ ~listeners[l2].stop_event

\* C19 as stated: the sample buffer is present exactly when the channel is
\* marked playing (Playing, Paused or Stopping).
C19_BufferIffPlaying ==
  \A c \in Chans : (current_data[c] # "None") <=> is_playing[c]

\* C19 amended: the buffer is present only while a worker that decoded it is
\* between the end of its decode and the end of its finally block; and when
\* every worker of the channel has ended (or none was started) the buffer is
\* absent and the channel is Idle.
C19_BufferOnlyWhileWorkerLives ==
  \A c \in Chans :
     /\ current_data[c] # "None" =>
           \E w \in 1..Len(workers[c]) :
              /\ workers[c][w].pc \in {"open", "loop", "finally"}
              /\ workers[c][w].file = current_data[c]
     /\ (\A w \in 1..Len(workers[c]) : workers[c][w].pc = "done") =>
           current_data[c] = "None" /\ ~is_playing[c]

\* C19 witness: stop() has returned and marked the channel Idle while the
\* worker is still inside its stream with the buffer present.
C19_Witness ==
  /\ lastOp.op = "stop" /\ lastOp.x = "Playing"
  /\ ~is_playing[1] /\ current_data[1] # "None"
  /\ Len(workers[1]) = 1 /\ workers[1][1].pc = "loop"

\* C20: the cursor never exceeds the length of the buffer that a running
\* audio callback reads.
C20_CursorWithinBuffer ==
  \A c \in Chans : \A w \in 1..Len(workers[c]) :
     workers[c][w].stream = "active" => current_frame[c] <= FileLen(workers[c][w].file)

\* C21 as stated: the cursor of a channel is written by the audio callback
\* only: every step that changes it is a callback of that channel.
C21_CallbackOnlyWriter ==
  [][ \A c \in Chans :
        current_frame'[c] # current_frame[c] => (lastOp'.op = "callback" /\ lastOp'.c = c)
    ]_vars

\* C21 amended: the cursor has three writers.  A callback of one of the
\* channel's streams moves it forward by the block; the worker sets it to
\* zero at the start of its track (line 93); restart_track sets it to zero,
\* called by the control thread or by dispatch for NEXT inside the window.
\* No other step writes it: not toggle_pause, stop, play_next, the queue
\* operations, nor dispatch of other commands or outside the window.
C21_CursorWriters ==
  [][ \A c \in Chans :
        current_frame'[c] # current_frame[c] =>
           /\ lastOp'.c = c
           /\ \/ lastOp'.op = "callback" /\ lastOp'.x = "frames"
                 /\ current_frame'[c] > current_frame[c]
              \/ lastOp'.op = "worker_open" /\ current_frame'[c] = 0
              \/ lastOp'.op = "restart_track" /\ is_playing[c] /\ current_frame'[c] = 0
              \/ /\ lastOp'.op = "handle_input"
                 /\ lastOp'.x.cmd = "NEXT" /\ InWindow(lastOp'.x.hour)
                 /\ is_playing[c] /\ current_frame'[c] = 0 ]_vars

\* C21 witness: dispatch of NEXT inside the window has acted on a paused
\* channel whose stream is active, and the cursor is zero.
C21_Witness ==
  /\ lastOp.op = "handle_input" /\ lastOp.c = 1
  /\ lastOp.x.cmd = "NEXT" /\ lastOp.x.hour = WindowStart
  /\ is_playing[1] /\ is_paused[1]
  /\ current_frame[1] = 0
  /\ \E w \in 1..Len(workers[1]) : workers[1][w].stream = "active"

\* The report holds the usage byte b.
HasUsage(data, b) == \E i \in 1..Len(data) : data[i] = b

\* The step is exactly one call of the dispatch callback by listener l with
\* command cmd: the event names the listener's device path, and the channels
\* change as one _handle_input changes them (one restart, or one toggle).
DispatchedOnce(l, cmd) ==
  LET c == TargetChannel(listeners[l].path)
      acts == InWindow(lastOp'.x.hour) /\ c # NoChan /\ is_playing[c]
  IN /\ lastOp'.op = "handle_input"
     /\ lastOp'.x.cmd = cmd
     /\ lastOp'.x.src = listeners[l].path
     /\ lastOp'.c = c
     /\ current_frame' = IF acts /\ cmd = "NEXT"
                         THEN [current_frame EXCEPT ![c] = 0] ELSE current_frame
     /\ is_paused' = IF acts /\ cmd = "PLAY_PAUSE"
                     THEN [is_paused EXCEPT ![c] = ~@] ELSE is_paused

\* C22: for every report a listener reads, the dispatch callback is called
\* at most once: with NEXT and the listener's device path when the report
\* holds the byte 0xB5 (also when it holds 0xCD as well), with PLAY_PAUSE
\* when it holds 0xCD and not 0xB5, and not at all otherwise (no channel
\* changes); a listener never produces PREV.
C22_ReportDispatch ==
  [][ \A l \in 1..Len(listeners) :
        (listeners[l].pc = "read" /\ listeners'[l].pc = "check") =>
           /\ lastOp'.x.l = l
           /\ lastOp'.x.data \in Reports
           /\ IF HasUsage(lastOp'.x.data, USAGE_SCAN_NEXT)
              THEN DispatchedOnce(l, "NEXT")
              ELSE IF HasUsage(lastOp'.x.data, USAGE_PLAY_PAUSE)
              THEN DispatchedOnce(l, "PLAY_PAUSE")
              ELSE /\ lastOp'.op = "listener_read"
                   /\ UNCHANGED <<is_paused, current_frame, is_playing, stop_event>>
           /\ lastOp'.op = "handle_input" => lastOp'.x.cmd # "PREV" ]_vars

\* C22 witness: the listener of the bound headset read a report holding both
\* usage bytes inside the window while its channel streams, and dispatched
\* NEXT.
C22_Witness ==
  /\ lastOp.op = "handle_input" /\ lastOp.c = 1
  /\ "data" \in DOMAIN lastOp.x
  /\ lastOp.x.data = <<205, 181>>
  /\ lastOp.x.cmd = "NEXT" /\ lastOp.x.hour = WindowStart
  /\ listeners[lastOp.x.l].path = "/dev/hid3"
  /\ is_playing[1] /\ current_frame[1] = 0
  /\ \E w \in 1..Len(workers[1]) : workers[1][w].stream = "active"

\* The channel object has a streaming context whose stream is open.
Streaming(c) == \E w \in 1..Len(workers[c]) : workers[c][w].stream = "active"

\* C23: when add_channel registers a channel under a station id that already
\* has one, the replaced channel is not streaming afterwards: every channel
\* object with an active streaming context is the one registered for its
\* station, so stop(), dispatch and stop_all can reach it.
C23_StreamingIsRegistered ==
  \A c \in 1..numChans : Streaming(c) => \E s \in Stations : channels[s] = c

====
